---------------------------- MODULE Spec2Model ----------------------------
(***************************************************************************)
(* A model of lab11/watts-up: the Watts Up? meter client (src/wattsup.py)  *)
(* and the HTTP ingest receiver (src/server.py).                           *)
(*                                                                         *)
(* Text is modelled as Python models it: a str is a sequence of one-       *)
(* character strings, and split, slicing, join, int() and float() are      *)
(* operators over such sequences.  Numbers produced by float() are kept in *)
(* thousandths (1234 stands for 1.234), so that /10.0, /1000.0 and *10.0   *)
(* are exact on the inputs of the model.                                   *)
(***************************************************************************)
EXTENDS Integers, Sequences, FiniteSets, TLC

VARIABLES
    args,       \* wattsup.py: the parsed command line
    pc,         \* wattsup.py: the statement the script is at
    status,     \* wattsup.py: the process exit status (-1 while it runs)
    exc,        \* wattsup.py: what ended the process ("" for the end of the script)
    s_open,     \* wattsup.py: self.s is open
    io,         \* wattsup.py: the writes and readlines on self.s, in order
    line,       \* wattsup.py: the line last read (h, i or l)
    n1,         \* wattsup.py: getNetworkInfo's n1
    ret,        \* wattsup.py: the value getHeader returned
    m,          \* wattsup.py: log's record m
    fout,       \* wattsup.py: what was written to the output file
    stdout,     \* wattsup.py: what was printed
    entered     \* wattsup.py: the functions called so far

VARIABLES
    srv,        \* server.py: the listening socket: "serving" or "closed"
    hpc,        \* server.py: the statement handle() is at ("accept" between connections)
    req,        \* server.py: the bytes of the request being handled, or handled last
    rfile,      \* server.py: the bytes of self.rfile not read yet
    now,        \* server.py: handle's now
    header_str, \* server.py: handle's header_str
    length,     \* server.py: handle's length: << >> while unbound, else << n >>
    poststr,    \* server.py: handle's poststr
    responses,  \* server.py: per connection handled, the response written (status 0: none)
    printed     \* server.py: the lines printed to standard output

meter_vars == << args, pc, status, exc, s_open, io, line, n1, ret, m, fout, stdout, entered >>

server_vars == << srv, hpc, req, rfile, now, header_str, length, poststr, responses, printed >>

vars == << meter_vars, server_vars >>

(***************************************************************************)
(* Python string primitives                                                *)
(***************************************************************************)

Min(a, b) == IF a < b THEN a ELSE b

\* s[a:] for a >= 0
From(s, a) == SubSeq(s, a + 1, Len(s))

\* s[0:b]
Upto(s, b) == SubSeq(s, 1, Min(b, Len(s)))

\* s[-n:]
Last(s, n) == IF Len(s) <= n THEN s ELSE SubSeq(s, Len(s) - n + 1, Len(s))

\* s.find(sep) + 1, or 0 when sep does not occur in s
Find(s, sep) ==
    LET hits == { i \in 1..(Len(s) - Len(sep) + 1) : SubSeq(s, i, i + Len(sep) - 1) = sep }
    IN  IF hits = {} THEN 0 ELSE CHOOSE i \in hits : \A j \in hits : i <= j

RECURSIVE Split(_, _)
\* s.split(sep), sep a non-empty str
Split(s, sep) ==
    LET i == Find(s, sep)
    IN  IF i = 0 THEN << s >>
        ELSE << SubSeq(s, 1, i - 1) >> \o Split(From(s, i - 1 + Len(sep)), sep)

\* s.split(sep, 1)
SplitOnce(s, sep) ==
    LET i == Find(s, sep)
    IN  IF i = 0 THEN << s >>
        ELSE << SubSeq(s, 1, i - 1), From(s, i - 1 + Len(sep)) >>

RECURSIVE Join(_, _)
\* sep.join(parts)
Join(parts, sep) ==
    IF parts = << >> THEN << >>
    ELSE IF Len(parts) = 1 THEN parts[1]
    ELSE parts[1] \o sep \o Join(Tail(parts), sep)

RECURSIVE Concat(_)
\* ''.join(parts)
Concat(parts) == IF parts = << >> THEN << >> ELSE parts[1] \o Concat(Tail(parts))

Whitespace == { " ", "\t", "\r", "\n" }

RECURSIVE LStrip(_)
LStrip(s) == IF s # << >> /\ s[1] \in Whitespace THEN LStrip(Tail(s)) ELSE s

RECURSIVE RStrip(_)
RStrip(s) ==
    IF s # << >> /\ s[Len(s)] \in Whitespace THEN RStrip(SubSeq(s, 1, Len(s) - 1)) ELSE s

\* s.strip()
Strip(s) == RStrip(LStrip(s))

DigitChars == << "0", "1", "2", "3", "4", "5", "6", "7", "8", "9" >>

Digits == { DigitChars[i] : i \in 1..10 }

DigitVal(c) == (CHOOSE i \in 1..10 : DigitChars[i] = c) - 1

IsDigits(s) == s # << >> /\ \A i \in 1..Len(s) : s[i] \in Digits

RECURSIVE Decimal(_)
\* the value of a run of decimal digits (0 for the empty run)
Decimal(s) ==
    IF s = << >> THEN 0
    ELSE 10 * Decimal(SubSeq(s, 1, Len(s) - 1)) + DigitVal(s[Len(s)])

RECURSIVE Str(_)
\* '{}'.format(n) for an int n >= 0
Str(n) == IF n < 10 THEN << DigitChars[n + 1] >> ELSE Str(n \div 10) \o << DigitChars[(n % 10) + 1] >>

\* The value raised in place of a result
ValueError == "ValueError"
IndexError == "IndexError"
KeyError == "KeyError"
TypeError == "TypeError"
NameError == "NameError"

Unsigned(s) == IF s # << >> /\ s[1] \in { "+", "-" } THEN Tail(s) ELSE s

Sign(s) == IF s # << >> /\ s[1] = "-" THEN -1 ELSE 1

\* int(s) succeeds: surrounding whitespace and one sign are accepted, then digits only
IsInt(s) == IsDigits(Unsigned(Strip(s)))

\* int(s), where it succeeds
ParseInt(s) == Sign(Strip(s)) * Decimal(Unsigned(Strip(s)))

\* float(s) succeeds.  Over the alphabet of the model: optional whitespace, one
\* sign, digits with at most one '.', at least one digit.
IsFloat(s) ==
    LET p == Split(Unsigned(Strip(s)), << "." >>)
    IN  /\ Len(p) <= 2
        /\ Concat(p) # << >>
        /\ \A k \in 1..Len(p) : \A i \in 1..Len(p[k]) : p[k][i] \in Digits

\* float(s), where it succeeds, in thousandths.  Fraction digits beyond the third
\* do not occur in the model's inputs.
ParseFloat(s) ==
    LET p  == Split(Unsigned(Strip(s)), << "." >>)
        fp == IF Len(p) = 2 THEN p[2] ELSE << >>
    IN  Sign(Strip(s)) * (1000 * Decimal(p[1]) + Decimal(Upto(fp \o << "0", "0", "0" >>, 3)))

\* x / d and x * k on thousandths
Div(x, d) == x \div d
Mul(x, k) == x * k

\* seq[i] succeeds, by Python's index rule: 0-based, negative counts from the end
InRange(seq, i) == -Len(seq) <= i /\ i < Len(seq)

\* seq[i], where it succeeds
PyIndex(seq, i) == IF i >= 0 THEN seq[i + 1] ELSE seq[Len(seq) + i + 1]

(***************************************************************************)
(* wattsup.py: constants                                                   *)
(***************************************************************************)

USER_AGENT == << "W", "a", "t", "t", "s", "U", "p", ".", "N", "E", "T" >>

\* commands[...]; a template's {} are filled by Format
commands ==
    [ header_request   |-> << "#", "H", ",", "R", ",", "0", ";" >>,
      version_request  |-> << "#", "V", ",", "R", ",", "0", ";" >>,
      network_info     |-> << "#", "I", ",", "Q", ",", "0", ";" >>,
      network_info_ext |-> << "#", "I", ",", "E", ",", "0", ";" >>,
      set_network_ext  |-> << "#", "I", ",", "X", ",", "5", ",", "{}", ",", "{}", ",", "{}",
                              ",", "{}", ",", "{}", ";" >>,
      write_network    |-> << "#", "I", ",", "W", ",", "0", ";" >>,
      logging          |-> << "#", "L", ",", "W", ",", "3", ",", "E", ",", ",", "{}", ";" >>,
      reset            |-> << "#", "V", ",", "W", ",", "0", ";" >> ]

RECURSIVE Format(_, _)
\* template.format(*fills): each {} is replaced by the next fill
Format(template, fills) ==
    IF template = << >> THEN << >>
    ELSE IF template[1] = "{}" THEN fills[1] \o Format(Tail(template), Tail(fills))
    ELSE << template[1] >> \o Format(Tail(template), fills)

\* The longest POST URL and POST file setNetworkExtended accepts
MaxStrLen == 40

(***************************************************************************)
(* Inputs: what the device may send, and how the script may be invoked     *)
(***************************************************************************)

\* The number of readline calls a run of the model makes at most
MaxReads == 4

EOL == << "\r", "\n" >>

\* A response line as the meter frames it: tag,x,y,field,...,field; and a line break
ResponseLine(tag, x, y, fields) ==
    Join(<< tag, x, y >> \o fields, << "," >>) \o << ";" >> \o EOL

\* Header lines #h,x,y,col1,...,coln; by their metadata fields and column names
HeaderForms ==
    { [ x |-> << "-" >>, y |-> << "0" >>, cols |-> << >> ],
      [ x |-> << "-" >>, y |-> << "2" >>, cols |-> << << "W" >>, << "V", "A" >> >> ] }

HeaderLine(f) == ResponseLine(<< "#", "h" >>, f.x, f.y, f.cols)

\* A version response with the 8 fields getVersionInfo asks for, and one with 7
VersionLine ==
    ResponseLine(<< "#", "v" >>, << "-" >>, << "8" >>,
        << << "3" >>, << "8" >>, << "6" >>, << "3" >>, << "8" >>, << "0" >>,
           << "2", "0", "1", "1", "0", "9", "2", "0", "0", "9", "1", "4", "2", "9" >>,
           << "0" >> >>)

ShortVersionLine ==
    ResponseLine(<< "#", "v" >>, << "-" >>, << "7" >>,
        << << "3" >>, << "8" >>, << "6" >>, << "3" >>, << "8" >>, << "0" >>, << "0" >> >>)

\* The basic (7 fields) and the extended (5 fields) network responses
NetworkLine ==
    ResponseLine(<< "#", "i" >>, << "-" >>, << "7" >>,
        << << "1", ".", "2" >>, << "1", ".", "1" >>, << "8", ".", "8" >>, << "8", ".", "4" >>,
           << "2", "5", "5" >>, << "1" >>, << "0", "A", "1", "b" >> >>)

NetworkExtLine ==
    ResponseLine(<< "#", "i" >>, << "-" >>, << "5" >>,
        << << "h", ".", "c" >>, << "8", "0" >>, << "/", "p" >>, USER_AGENT, << "1" >> >>)

\* Data lines: twelve numeric fields (two such lines), two fields only, and a field
\* that is no number
DataFields ==
    << << "1", "1" >>, << "2", "2" >>, << "3", "3" >>, << "4", "4" >>, << "5", "5" >>,
       << "6", "6" >>, << "7", "7" >>, << "8", "8" >>, << "9", "9" >>, << "1", "0" >>,
       << "6", "0", "0" >>, << "7", "5" >> >>

DataLine == ResponseLine(<< "#", "d" >>, << "-" >>, << "1", "2" >>, DataFields)

OtherDataLine ==
    ResponseLine(<< "#", "d" >>, << "-" >>, << "1", "2" >>,
        [ k \in 1..Len(DataFields) |-> << "2" >> \o DataFields[k] ])

ShortDataLine ==
    ResponseLine(<< "#", "d" >>, << "-" >>, << "2" >>, << << "1", "1" >>, << "2", "2" >> >>)

BadDataLine ==
    ResponseLine(<< "#", "d" >>, << "-" >>, << "1", "2" >>,
        [ DataFields EXCEPT ![5] = << "_" >> ])

DeviceLines ==
    { HeaderLine(f) : f \in HeaderForms }
    \cup { VersionLine, ShortVersionLine, NetworkLine, NetworkExtLine,
           DataLine, OtherDataLine, ShortDataLine, BadDataLine }

\* int(time.time()*1000), as the clock may read.  No branch of either program
\* tests it, so one reading stands for all.
Clock == { 1000 }

\* A str of n characters
Chars(n) == [ i \in 1..n |-> "a" ]

NoArgs ==
    [ port_exists |-> TRUE, header |-> FALSE, info |-> FALSE, reset |-> FALSE,
      log |-> FALSE, format |-> "raw", outfile |-> FALSE, save |-> FALSE,
      interval |-> 1, network |-> << >> ]

\* --network-config <POST URL> <POST port> <POST file>, by the lengths of URL and file
NetworkArgs ==
    { << [ url |-> Chars(u), port |-> << "8", "0" >>, pfile |-> Chars(p) ] >> :
        u \in { 0, MaxStrLen, MaxStrLen + 1, MaxStrLen + 2 },
        p \in { 1, MaxStrLen, MaxStrLen + 1 } }

\* The command lines of the model
Invocations ==
    { NoArgs,
      [ NoArgs EXCEPT !.port_exists = FALSE, !.header = TRUE ],
      [ NoArgs EXCEPT !.header = TRUE, !.log = TRUE ],
      [ NoArgs EXCEPT !.info = TRUE, !.reset = TRUE ],
      [ NoArgs EXCEPT !.reset = TRUE, !.log = TRUE ],
      [ NoArgs EXCEPT !.log = TRUE, !.format = "raw" ],
      [ NoArgs EXCEPT !.log = TRUE, !.format = "pretty", !.interval = 5,
                      !.network = << [ url |-> Chars(1), port |-> << "8", "0" >>,
                                       pfile |-> Chars(1) ] >> ],
      [ NoArgs EXCEPT !.log = TRUE, !.format = "json", !.outfile = TRUE ],
      [ NoArgs EXCEPT !.log = TRUE, !.format = "raw", !.save = TRUE, !.interval = 0 ] }
    \cup { [ NoArgs EXCEPT !.network = n ] : n \in NetworkArgs }
    \cup { [ NoArgs EXCEPT !.network = n, !.interval = 0 ] :
             n \in { << [ url |-> Chars(2), port |-> << "8", "0" >>, pfile |-> Chars(2) ] >> } }

(***************************************************************************)
(* wattsup.py: the serial handle, and how the process ends                 *)
(***************************************************************************)

NumReads == Cardinality({ k \in DOMAIN io : io[k].op = "readline" })

\* self.s.write(data) in function fn
Write(fn, data) == io' = Append(io, [ op |-> "write", by |-> fn, data |-> data ])

\* self.s.readline() in function fn returning l
ReadLine(fn, l) ==
    /\ NumReads < MaxReads
    /\ io' = Append(io, [ op |-> "readline", by |-> fn, data |-> l ])

\* An exception nothing catches ends the interpreter with status 1
Uncaught(e) == pc' = "exited" /\ status' = 1 /\ exc' = e

SysExit(n) == pc' = "exited" /\ status' = n /\ exc' = "SystemExit"

EndOfScript == pc' = "exited" /\ status' = 0 /\ exc' = ""

Tag(l) == Upto(l, 2)

\* l.split(';')[0].split(',')[3:]
Fields(l) == From(Split(Split(l, << ";" >>)[1], << "," >>), 3)

MeterInit ==
    /\ args \in Invocations
    /\ pc = "start"
    /\ status = -1
    /\ exc = ""
    /\ s_open = FALSE
    /\ io = << >>
    /\ line = << >>
    /\ n1 = << >>
    /\ ret = << >>
    /\ m = << >>
    /\ fout = << >>
    /\ stdout = << >>
    /\ entered = { }

\* wattsup.__init__
Connect ==
    /\ pc = "start"
    /\ IF ~args.port_exists
       THEN Uncaught("Exception") /\ UNCHANGED s_open
       ELSE s_open' = TRUE /\ pc' = "main" /\ UNCHANGED << status, exc >>
    /\ entered' = entered \cup { "__init__" }
    /\ UNCHANGED << args, io, line, n1, ret, m, fout, stdout >>
    /\ UNCHANGED server_vars

\* The script's choice of what to do, in the order it tests the flags
MainDispatch ==
    /\ pc = "main"
    /\ IF args.header
       THEN pc' = "hdr_write" /\ entered' = entered \cup { "getHeader" }
                               /\ UNCHANGED << status, exc >>
       ELSE IF args.info
       THEN pc' = "ver_write" /\ entered' = entered \cup { "getVersionInfo" }
                               /\ UNCHANGED << status, exc >>
       ELSE IF args.reset
       THEN pc' = "reset" /\ entered' = entered \cup { "reset" }
                           /\ UNCHANGED << status, exc >>
       ELSE IF args.log
       THEN pc' = "log_open" /\ entered' = entered \cup { "log" }
                              /\ UNCHANGED << status, exc >>
       ELSE IF args.network # << >>
       THEN pc' = "setnet_check" /\ entered' = entered \cup { "setNetworkExtended" }
                                  /\ UNCHANGED << status, exc >>
       ELSE EndOfScript /\ UNCHANGED entered
    /\ UNCHANGED << args, s_open, io, line, n1, ret, m, fout, stdout >>
    /\ UNCHANGED server_vars

\* getHeader: self.s.write(commands['header_request'])
GetHeaderWrite ==
    /\ pc = "hdr_write"
    /\ Write("getHeader", commands.header_request)
    /\ pc' = "hdr_read"
    /\ UNCHANGED << args, status, exc, s_open, line, n1, ret, m, fout, stdout, entered >>
    /\ UNCHANGED server_vars

\* getHeader's test of the line read
HeaderAccepted(h) == Tag(h) = << "#", "h" >>

\* A variant of HeaderColumns: hf[2:], which keeps the second metadata field
HeaderColumnsFromTwo(h) == From(Split(Split(h, << ";" >>)[1], << "," >>), 2)

\* hf[3:] of hf = h.split(';')[0].split(',')
HeaderColumns(h) == From(Split(Split(h, << ";" >>)[1], << "," >>), 3)

\* getHeader: h = self.s.readline(), the test of its tag, and the return
GetHeaderRead ==
    /\ pc = "hdr_read"
    /\ \E h \in DeviceLines :
        /\ ReadLine("getHeader", h)
        /\ line' = h
        /\ IF HeaderAccepted(h)
           THEN /\ ret' = HeaderColumns(h)
                /\ pc' = IF args.header THEN "main_header" ELSE "log_header"
           ELSE /\ pc' = "hdr_write"
                /\ UNCHANGED ret
    /\ UNCHANGED << args, status, exc, s_open, n1, m, fout, stdout, entered >>
    /\ UNCHANGED server_vars

\* print('Headings: {}'.format(', '.join(meter.getHeader()))); sys.exit(0)
MainHeader ==
    /\ pc = "main_header"
    /\ stdout' = Append(stdout, [ kind |-> "headings", text |-> Join(ret, << ",", " " >>) ])
    /\ SysExit(0)
    /\ UNCHANGED << args, s_open, io, line, n1, ret, m, fout, entered >>
    /\ UNCHANGED server_vars

(***************************************************************************)
(* wattsup.py: getVersionInfo                                              *)
(***************************************************************************)

\* getVersionInfo: self.s.write(commands['version_request'])
GetVersionWrite ==
    /\ pc = "ver_write"
    /\ Write("getVersionInfo", commands.version_request)
    /\ pc' = "ver_read"
    /\ UNCHANGED << args, status, exc, s_open, line, n1, ret, m, fout, stdout, entered >>
    /\ UNCHANGED server_vars

\* A variant of VersionAccepted: the tag alone ends the loop
VersionAcceptedTagOnly(i) == Tag(i) = << "#", "v" >>

\* getVersionInfo's test of the line read: the tag, then the count of ifields
VersionAccepted(i) == Tag(i) = << "#", "v" >> /\ Len(Fields(i)) = 8

\* getVersionInfo: i = self.s.readline() and the test that ends the loop
GetVersionRead ==
    /\ pc = "ver_read"
    /\ \E i \in DeviceLines :
        /\ ReadLine("getVersionInfo", i)
        /\ line' = i
        /\ pc' = IF VersionAccepted(i) THEN "ver_return" ELSE "ver_write"
    /\ UNCHANGED << args, status, exc, s_open, n1, ret, m, fout, stdout, entered >>
    /\ UNCHANGED server_vars

versions == << "Standard", "PRO", "ES", ".NET" >>
hwma == << "ADE7763, PIC18F45J10", "ADE7763, PIC18F45J10, Ethernet" >>
hwmi == << "no USB", "USB @ 19200bps", "USB @ 115200bps", "Ethernet" >>

\* datetime.datetime.strptime(t, '%Y%m%d%H%M%S') succeeds.  Days are checked
\* against 31, not against the month's length.
IsTimestamp(t) ==
    LET n(a, b) == Decimal(SubSeq(t, a, b))
    IN  /\ Len(t) = 14
        /\ IsDigits(t)
        /\ n(5, 6) \in 1..12
        /\ n(7, 8) \in 1..31
        /\ n(9, 10) \in 0..23
        /\ n(11, 12) \in 0..59
        /\ n(13, 14) \in 0..61

\* The datetime strptime returns, where it succeeds
Strptime(t) ==
    LET n(a, b) == Decimal(SubSeq(t, a, b))
    IN  << n(1, 4), n(5, 6), n(7, 8), n(9, 10), n(11, 12), n(13, 14) >>

\* What table[int(field) - offset] raises, or ""
LookupError(table, field, offset) ==
    IF ~IsInt(field) THEN ValueError
    ELSE IF ~InRange(table, ParseInt(field) - offset) THEN IndexError
    ELSE ""

\* The first exception among the results, in the order they are computed, or ""
FirstError(results) ==
    LET bad == { k \in 1..Len(results) : results[k] # "" }
    IN  IF bad = { } THEN ""
        ELSE results[CHOOSE k \in bad : \A j \in bad : k <= j]

\* The report getVersionInfo builds from ifields
VersionReport(ifields) ==
    << << "Model type", PyIndex(versions, ParseInt(ifields[1])) >>,
       << "Memory (bytes)", ifields[2] >>,
       << "Hardware Major", PyIndex(hwma, ParseInt(ifields[3]) - 5) >>,
       << "Hardware Minor", PyIndex(hwmi, ParseInt(ifields[4])) >>,
       << "Firmware Major", ifields[5] >>,
       << "Firmware Minor", ifields[6] >>,
       << "SW Compilation", Strptime(ifields[7]) >> >>

\* getVersionInfo's formatting and return, and main's print of it
GetVersionReturn ==
    /\ pc = "ver_return"
    /\ LET ifields == Fields(line)
           err == FirstError(<< IF IsTimestamp(ifields[7]) THEN "" ELSE ValueError,
                                LookupError(versions, ifields[1], 0),
                                LookupError(hwma, ifields[3], 5),
                                LookupError(hwmi, ifields[4], 0) >>)
       IN  IF err # ""
           THEN Uncaught(err) /\ UNCHANGED << stdout, entered >>
           ELSE /\ stdout' = Append(stdout, [ kind |-> "version", text |-> VersionReport(ifields) ])
                /\ pc' = "net_write"
                /\ entered' = entered \cup { "getNetworkInfo" }
                /\ UNCHANGED << status, exc >>
    /\ UNCHANGED << args, s_open, io, line, n1, ret, m, fout >>
    /\ UNCHANGED server_vars

(***************************************************************************)
(* wattsup.py: getNetworkInfo                                              *)
(***************************************************************************)

\* getNetworkInfo: self.s.write(commands['network_info'])
NetInfoWrite ==
    /\ pc = "net_write"
    /\ Write("getNetworkInfo", commands.network_info)
    /\ pc' = "net_read"
    /\ UNCHANGED << args, status, exc, s_open, line, n1, ret, m, fout, stdout, entered >>
    /\ UNCHANGED server_vars

\* The tests that end getNetworkInfo's first and second loop
NetworkAccepted(i) == Tag(i) = << "#", "i" >> /\ Len(Fields(i)) = 7

NetworkExtAccepted(i) == Tag(i) = << "#", "i" >> /\ Len(Fields(i)) = 5

\* getNetworkInfo, first loop: i = self.s.readline(), n1, and the test
NetInfoRead ==
    /\ pc = "net_read"
    /\ \E i \in DeviceLines :
        /\ ReadLine("getNetworkInfo", i)
        /\ line' = i
        /\ n1' = IF Tag(i) = << "#", "i" >> THEN Fields(i) ELSE n1
        /\ pc' = IF NetworkAccepted(i) THEN "netext_write" ELSE "net_write"
    /\ UNCHANGED << args, status, exc, s_open, ret, m, fout, stdout, entered >>
    /\ UNCHANGED server_vars

\* getNetworkInfo: self.s.write(commands['network_info_ext'])
NetInfoExtWrite ==
    /\ pc = "netext_write"
    /\ Write("getNetworkInfo", commands.network_info_ext)
    /\ pc' = "netext_read"
    /\ UNCHANGED << args, status, exc, s_open, line, n1, ret, m, fout, stdout, entered >>
    /\ UNCHANGED server_vars

\* getNetworkInfo, second loop: i = self.s.readline(), n2, and the test
NetInfoExtRead ==
    /\ pc = "netext_read"
    /\ \E i \in DeviceLines :
        /\ ReadLine("getNetworkInfo", i)
        /\ line' = i
        /\ pc' = IF NetworkExtAccepted(i) THEN "net_return" ELSE "netext_write"
    /\ UNCHANGED << args, status, exc, s_open, n1, ret, m, fout, stdout, entered >>
    /\ UNCHANGED server_vars

HexDigits ==
    Digits \cup { "a", "b", "c", "d", "e", "f", "A", "B", "C", "D", "E", "F" }

\* The lower-case hex digit of a hex digit
HexLower(c) ==
    CASE c = "A" -> "a" [] c = "B" -> "b" [] c = "C" -> "c"
      [] c = "D" -> "d" [] c = "E" -> "e" [] c = "F" -> "f" [] OTHER -> c

\* x.decode('hex') succeeds
IsHex(x) == Len(x) % 2 = 0 /\ \A k \in 1..Len(x) : x[k] \in HexDigits

\* ':'.join(s.encode('hex') for s in x.decode('hex')), where decode succeeds
MacAddress(x) ==
    Join([ b \in 1..(Len(x) \div 2) |->
             << HexLower(x[2 * b - 1]), HexLower(x[2 * b]) >> ], << ":" >>)

\* The report getNetworkInfo builds from n1 and n2
NetworkReport(a, b) ==
    << << "IP Address", a[1] >>, << "Gateway", a[2] >>, << "DNS 1", a[3] >>,
       << "DNS 2", a[4] >>, << "Net Mask", a[5] >>, << "DHCP", a[6] # << >> >>,
       << "MAC Address", MacAddress(a[7]) >>, << "POST Host", b[1] >>,
       << "POST Port", b[2] >>, << "POST File", b[3] >>, << "User Agent", b[4] >>,
       << "POST Interval", b[5] >> >>

\* getNetworkInfo's formatting and return, main's print of it and sys.exit(0)
NetInfoReturn ==
    /\ pc = "net_return"
    /\ LET n2 == Fields(line)
       IN  IF ~IsHex(n1[7])
           THEN Uncaught(TypeError) /\ UNCHANGED stdout
           ELSE /\ stdout' = Append(stdout, [ kind |-> "network", text |-> NetworkReport(n1, n2) ])
                /\ SysExit(0)
    /\ UNCHANGED << args, s_open, io, line, n1, ret, m, fout, entered >>
    /\ UNCHANGED server_vars

(***************************************************************************)
(* wattsup.py: reset                                                       *)
(***************************************************************************)

\* meter.reset(); sys.exit(0)
Reset ==
    /\ pc = "reset"
    /\ Write("reset", commands.reset)
    /\ SysExit(0)
    /\ UNCHANGED << args, s_open, line, n1, ret, m, fout, stdout, entered >>
    /\ UNCHANGED server_vars

(***************************************************************************)
(* wattsup.py: log                                                         *)
(***************************************************************************)

\* f.write(item): f is the output file, or stdoutfile() when there is none
FWrite(items) ==
    IF args.outfile \/ args.save
    THEN fout' = fout \o items /\ UNCHANGED stdout
    ELSE stdout' = stdout \o items /\ UNCHANGED fout

\* log: the output file and its leading comment lines; the call of getHeader
LogOpen ==
    /\ pc = "log_open"
    /\ IF args.outfile \/ args.save
       THEN /\ fout' = << [ kind |-> "comment", text |-> "Readings from a Watts Up? Meter" ],
                          [ kind |-> "comment", text |-> "datetime.datetime.now()" ] >>
            /\ IF args.format = "raw"
               THEN pc' = "hdr_write" /\ entered' = entered \cup { "getHeader" }
               ELSE pc' = "log_start" /\ UNCHANGED entered
       ELSE pc' = "log_start" /\ UNCHANGED << fout, entered >>
    /\ UNCHANGED << args, status, exc, s_open, io, line, n1, ret, m, stdout >>
    /\ UNCHANGED server_vars

\* log: f.write('timestamp,{}\n'.format(','.join(self.getHeader())))
LogHeaderRow ==
    /\ pc = "log_header"
    /\ fout' = Append(fout, [ kind |-> "header",
                              text |-> << "t", "i", "m", "e", "s", "t", "a", "m", "p", "," >>
                                       \o Join(ret, << "," >>) \o << "\n" >> ])
    /\ pc' = "log_start"
    /\ UNCHANGED << args, status, exc, s_open, io, line, n1, ret, m, stdout, entered >>
    /\ UNCHANGED server_vars

\* log: self.s.write(commands['logging'].format(int(interval)))
LogStart ==
    /\ pc = "log_start"
    /\ Write("log", Format(commands.logging, << Str(args.interval) >>))
    /\ pc' = "log_read"
    /\ UNCHANGED << args, status, exc, s_open, line, n1, ret, m, fout, stdout, entered >>
    /\ UNCHANGED server_vars

\* log's test of the line read
IsData(l) == Tag(l) = << "#", "d" >>

\* A variant of LogReadLine: the logging command is sent again before each read,
\* as the query loops send theirs
LogReadLineResend ==
    /\ pc = "log_read"
    /\ NumReads < MaxReads
    /\ \E l \in DeviceLines :
        /\ io' = io \o << [ op |-> "write", by |-> "log",
                            data |-> Format(commands.logging, << Str(args.interval) >>) ],
                          [ op |-> "readline", by |-> "log", data |-> l ] >>
        /\ line' = l
        /\ pc' = IF IsData(l) THEN "log_parse" ELSE "log_read"
    /\ UNCHANGED << args, status, exc, s_open, n1, ret, m, fout, stdout, entered >>
    /\ UNCHANGED server_vars

\* log: l = self.s.readline() and the test of its tag
LogReadLine ==
    /\ pc = "log_read"
    /\ \E l \in DeviceLines :
        /\ ReadLine("log", l)
        /\ line' = l
        /\ pc' = IF IsData(l) THEN "log_parse" ELSE "log_read"
    /\ UNCHANGED << args, status, exc, s_open, n1, ret, m, fout, stdout, entered >>
    /\ UNCHANGED server_vars

\* The entries of m after time: the label, the index into vals, and the scaling
\* float(vals[col]) * mul / div
RecordFields ==
    << [ label |-> "watts",              col |-> 0,  mul |-> 1,  div |-> 10 ],
       [ label |-> "volts",              col |-> 1,  mul |-> 1,  div |-> 10 ],
       [ label |-> "amps",               col |-> 2,  mul |-> 1,  div |-> 10 ],
       [ label |-> "watt-hours",         col |-> 3,  mul |-> 1,  div |-> 10 ],
       [ label |-> "dollars",            col |-> 4,  mul |-> 1,  div |-> 1000 ],
       [ label |-> "watt hours monthly", col |-> 5,  mul |-> 1,  div |-> 1 ],
       [ label |-> "dollars monthly",    col |-> 6,  mul |-> 10, div |-> 1 ],
       [ label |-> "power factor",       col |-> 7,  mul |-> 1,  div |-> 1 ],
       [ label |-> "duty cycle",         col |-> 8,  mul |-> 1,  div |-> 1 ],
       [ label |-> "power cycle",        col |-> 9,  mul |-> 1,  div |-> 1 ],
       [ label |-> "frequency",          col |-> 10, mul |-> 1,  div |-> 10 ],
       [ label |-> "volt-amps",          col |-> 10, mul |-> 1,  div |-> 10 ] >>

\* What building m from vals raises, or "": the entries are computed in order, an
\* entry's vals[col] before its float()
RecordError(vals) ==
    FirstError([ k \in 1..Len(RecordFields) |->
                   IF RecordFields[k].col >= Len(vals) THEN IndexError
                   ELSE IF ~IsFloat(vals[RecordFields[k].col + 1]) THEN ValueError
                   ELSE "" ])

\* m, where building it succeeds
Record(t, vals) ==
    << << "time", t >> >>
    \o [ k \in 1..Len(RecordFields) |->
           << RecordFields[k].label,
              Div(Mul(ParseFloat(vals[RecordFields[k].col + 1]), RecordFields[k].mul),
                  RecordFields[k].div) >> ]

\* log: vals, now and m for a line tagged #d
LogParse ==
    /\ pc = "log_parse"
    /\ LET vals == Fields(line)
       IN  IF RecordError(vals) # ""
           THEN Uncaught(RecordError(vals)) /\ UNCHANGED m
           ELSE /\ \E t \in Clock : m' = Record(t, vals)
                /\ pc' = "log_render"
                /\ UNCHANGED << status, exc >>
    /\ UNCHANGED << args, s_open, io, line, n1, ret, fout, stdout, entered >>
    /\ UNCHANGED server_vars

\* dict(pairs): the last value given for each key
Dict(pairs) ==
    [ key \in { pairs[k][1] : k \in 1..Len(pairs) } |->
        pairs[CHOOSE k \in 1..Len(pairs) :
                /\ pairs[k][1] = key
                /\ \A j \in (k + 1)..Len(pairs) : pairs[j][1] # key][2] ]

\* The record line written for m in a format
Render(format, rec) ==
    CASE format = "raw"    -> [ kind |-> "raw", text |-> [ k \in 1..Len(rec) |-> rec[k][2] ] ]
      [] format = "pretty" -> [ kind |-> "pretty",
                                text |-> [ k \in 1..Len(rec) |-> << rec[k][2], rec[k][1] >> ] ]
      [] format = "json"   -> [ kind |-> "json", text |-> Dict(rec) ]

\* log: the writes of m to f in the chosen format
LogRender ==
    /\ pc = "log_render"
    /\ FWrite(<< Render(args.format, m) >>)
    /\ pc' = "log_read"
    /\ UNCHANGED << args, status, exc, s_open, io, line, n1, ret, m, entered >>
    /\ UNCHANGED server_vars

\* The statements of log inside its try
InLogTry == pc \in { "log_read", "log_parse", "log_render" }

\* An interrupt signal: log's handler closes self.s and log returns to the end of
\* the script; anywhere else nothing catches KeyboardInterrupt
Interrupt ==
    /\ pc # "exited"
    /\ IF InLogTry
       THEN s_open' = FALSE /\ EndOfScript
       ELSE Uncaught("KeyboardInterrupt") /\ UNCHANGED s_open
    /\ UNCHANGED << args, io, line, n1, ret, m, fout, stdout, entered >>
    /\ UNCHANGED server_vars

(***************************************************************************)
(* wattsup.py: setNetworkExtended                                          *)
(***************************************************************************)

\* A variant of TooLong: the limit taken one too high
TooLongOffByOne(s) == Len(s) > MaxStrLen + 1

\* len(s) > 40
TooLong(s) == Len(s) > MaxStrLen

\* main's interval for setNetworkExtended: 1 unless args.interval is set
NetworkInterval == IF args.interval # 0 THEN args.interval ELSE 1

\* setNetworkExtended: the two length checks
SetNetCheck ==
    /\ pc = "setnet_check"
    /\ IF TooLong(args.network[1].url)
       THEN /\ stdout' = Append(stdout, [ kind |-> "error", text |-> "POST URL too long" ])
            /\ SysExit(1)
       ELSE IF TooLong(args.network[1].pfile)
       THEN /\ stdout' = Append(stdout, [ kind |-> "error", text |-> "POST file too long" ])
            /\ SysExit(1)
       ELSE pc' = "setnet_write" /\ UNCHANGED << status, exc, stdout >>
    /\ UNCHANGED << args, s_open, io, line, n1, ret, m, fout, entered >>
    /\ UNCHANGED server_vars

\* cmd = commands['set_network_ext'].format(url, port, pfile, USER_AGENT, int(interval))
SetNetworkCommand(n, interval) ==
    Format(commands.set_network_ext, << n.url, n.port, n.pfile, USER_AGENT, Str(interval) >>)

\* setNetworkExtended: self.s.write(cmd)
SetNetWrite ==
    /\ pc = "setnet_write"
    /\ Write("setNetworkExtended", SetNetworkCommand(args.network[1], NetworkInterval))
    /\ pc' = "setnet_ack"
    /\ UNCHANGED << args, status, exc, s_open, line, n1, ret, m, fout, stdout, entered >>
    /\ UNCHANGED server_vars

\* A variant of SetNetAck: the acknowledgement is not read before the commit
SetNetAckSkipped ==
    /\ pc = "setnet_ack"
    /\ pc' = "setnet_commit"
    /\ UNCHANGED << args, status, exc, s_open, io, line, n1, ret, m, fout, stdout, entered >>
    /\ UNCHANGED server_vars

\* setNetworkExtended: the first self.s.readline()
SetNetAck ==
    /\ pc = "setnet_ack"
    /\ \E l \in DeviceLines : ReadLine("setNetworkExtended", l)
    /\ pc' = "setnet_commit"
    /\ UNCHANGED << args, status, exc, s_open, line, n1, ret, m, fout, stdout, entered >>
    /\ UNCHANGED server_vars

\* setNetworkExtended: self.s.write(commands['write_network'])
SetNetCommit ==
    /\ pc = "setnet_commit"
    /\ Write("setNetworkExtended", commands.write_network)
    /\ pc' = "setnet_commit_ack"
    /\ UNCHANGED << args, status, exc, s_open, line, n1, ret, m, fout, stdout, entered >>
    /\ UNCHANGED server_vars

\* setNetworkExtended: the second self.s.readline(), the return, the end of the script
SetNetCommitAck ==
    /\ pc = "setnet_commit_ack"
    /\ \E l \in DeviceLines : ReadLine("setNetworkExtended", l)
    /\ EndOfScript
    /\ UNCHANGED << args, s_open, line, n1, ret, m, fout, stdout, entered >>
    /\ UNCHANGED server_vars

(***************************************************************************)
(* server.py: inputs                                                       *)
(***************************************************************************)

\* The number of connections a run of the model serves at most
MaxConns == 2

\* The form keys handle() looks up, in the order it looks them up
RequiredKeys ==
    << << "i", "d" >>, << "w" >>, << "v" >>, << "a" >>, << "w", "h" >>,
       << "w", "m", "x" >>, << "v", "m", "x" >>, << "a", "m", "x" >>,
       << "w", "m", "i" >>, << "v", "m", "i" >>, << "a", "m", "i" >>,
       << "p", "f" >>, << "p", "c", "y" >>, << "f", "r", "q" >>, << "v", "a" >> >>

\* The values of a well-formed submission, key by key
GoodValues ==
    << << "d", "e", "v", "1" >>, << "1", "0", "0", "0" >>, << "2", "3", "0", "0" >>,
       << "4", "5", "0" >>, << "5", "0", "0" >>, << "1", "1", "0", "0" >>,
       << "2", "4", "0", "0" >>, << "5", "0", "0" >>, << "9", "0", "0" >>,
       << "2", "2", "0", "0" >>, << "4", "0", "0" >>, << "0", ".", "9", "5" >>,
       << "1" >>, << "6", "0", "0" >>, << "1", "0", "5", "0" >> >>

\* key=value&...&key=value for the keys at the positions ks, in order
FormBody(ks, values) ==
    Join([ k \in 1..Len(ks) |-> RequiredKeys[ks[k]] \o << "=" >> \o values[ks[k]] ], << "&" >>)

AllKeys == [ k \in 1..Len(RequiredKeys) |-> k ]

\* AllKeys without position j
Without(j) == [ k \in 1..(Len(RequiredKeys) - 1) |-> IF k < j THEN k ELSE k + 1 ]

GoodBody == FormBody(AllKeys, GoodValues)

\* The bodies of the model: well formed; one required key left out; a value that
\* is no number; a value left blank; a key given twice
Bodies ==
    { GoodBody }
    \cup { FormBody(Without(j), GoodValues) : j \in 1..Len(RequiredKeys) }
    \cup { FormBody(AllKeys, [ GoodValues EXCEPT ![2] = << "a", "b", "c" >> ]),
           FormBody(AllKeys, [ GoodValues EXCEPT ![3] = << >> ]),
           << "w", "=", "7", "&" >> \o GoodBody }

RequestLine == << "P", "O", "S", "T", " ", "/", "\r", "\n" >>

ContentLength == << "C", "o", "n", "t", "e", "n", "t", "-", "L", "e", "n", "g", "t", "h" >>

\* The bytes a client sends: request line, Content-Length header, blank line, body
Request(len, body) ==
    RequestLine \o ContentLength \o << ":", " " >> \o len \o << "\r", "\n", "\r", "\n" >> \o body

\* The requests of the model: each body with its length; a length shorter than the
\* body; a length that is no number; no Content-Length header; no blank line
Requests ==
    { Request(Str(Len(b)), b) : b \in Bodies }
    \cup { Request(Str(Len(GoodBody) - 8), GoodBody),
           Request(<< "x" >>, GoodBody),
           RequestLine \o << "\r", "\n" >> \o GoodBody,
           RequestLine }

(***************************************************************************)
(* server.py: myHandler.handle and the serve loop                          *)
(***************************************************************************)

\* serve_forever hands the next connection to handle(): now, header_str = ''
Accept ==
    /\ srv = "serving"
    /\ hpc = "accept"
    /\ Len(responses) < MaxConns
    /\ \E r \in Requests, t \in Clock :
        /\ req' = r
        /\ rfile' = r
        /\ now' = t
    /\ header_str' = << >>
    /\ length' = << >>
    /\ poststr' = << >>
    /\ hpc' = "read_header"
    /\ UNCHANGED << srv, responses, printed >>
    /\ UNCHANGED meter_vars

\* handle: byte = self.rfile.read(1); header_str += byte; the test for the blank
\* line.  At the end of the input read(1) returns '' and the loop goes on.
ReadHeaderByte ==
    /\ hpc = "read_header"
    /\ LET byte == Upto(rfile, 1)
           h == header_str \o byte
       IN  /\ header_str' = h
           /\ rfile' = From(rfile, Len(byte))
           /\ hpc' = IF Len(h) > 3 /\ Last(h, 4) = << "\r", "\n", "\r", "\n" >>
                     THEN "scan_headers" ELSE "read_header"
    /\ UNCHANGED << srv, req, now, length, poststr, responses, printed >>
    /\ UNCHANGED meter_vars

\* The header lines up to and including the first whose name is Content-Length
UptoContentLength(headers) ==
    LET hits == { k \in 1..Len(headers) : Split(headers[k], << ":", " " >>)[1] = ContentLength }
    IN  IF hits = { } THEN << >>
        ELSE Split(headers[CHOOSE k \in hits : \A j \in hits : k <= j], << ":", " " >>)

\* A connection whose handler raised: the serve loop reports the error, drops the
\* connection without a response and goes on to the next
HandlerRaises(e) ==
    /\ responses' = Append(responses, [ status |-> 0, content_type |-> << >>, body |-> << >>,
                                        raised |-> e, at |-> hpc ])
    /\ hpc' = "accept"

\* handle: the scan of the header lines for Content-Length
ScanHeaders ==
    /\ hpc = "scan_headers"
    /\ LET val == UptoContentLength(Split(header_str, << "\n" >>))
       IN  IF val = << >>
           THEN hpc' = "read_body" /\ UNCHANGED << length, responses >>
           ELSE IF Len(val) < 2
           THEN HandlerRaises(IndexError) /\ UNCHANGED length
           ELSE IF ~IsInt(val[2])
           THEN HandlerRaises(ValueError) /\ UNCHANGED length
           ELSE /\ length' = << ParseInt(val[2]) >>
                /\ hpc' = "read_body"
                /\ UNCHANGED responses
    /\ UNCHANGED << srv, req, rfile, now, header_str, poststr, printed >>
    /\ UNCHANGED meter_vars

\* handle: poststr = self.rfile.read(length), of a client that has sent its request
ReadBody ==
    /\ hpc = "read_body"
    /\ IF length = << >>
       THEN HandlerRaises(NameError) /\ UNCHANGED << rfile, poststr >>
       ELSE /\ poststr' = IF length[1] < 0 THEN rfile ELSE Upto(rfile, length[1])
            /\ rfile' = IF length[1] < 0 THEN << >> ELSE From(rfile, Min(length[1], Len(rfile)))
            /\ hpc' = "parse"
            /\ UNCHANGED responses
    /\ UNCHANGED << srv, req, now, header_str, length, printed >>
    /\ UNCHANGED meter_vars

RECURSIVE FlatSplit(_, _)
\* [s2 for s1 in parts for s2 in s1.split(sep)]
FlatSplit(parts, sep) ==
    IF parts = << >> THEN << >> ELSE Split(parts[1], sep) \o FlatSplit(Tail(parts), sep)

\* s.replace('+', ' '); the model's bodies hold no % escapes for unquote to undo
Unquote(s) == [ k \in 1..Len(s) |-> IF s[k] = "+" THEN " " ELSE s[k] ]

\* urlparse.parse_qsl(qs): the name, value pairs, blank values dropped
ParseQsl(qs) ==
    LET pairs == FlatSplit(Split(qs, << "&" >>), << ";" >>)
        nv(k) == SplitOnce(pairs[k], << "=" >>)
        kept == SelectSeq([ k \in 1..Len(pairs) |-> nv(k) ],
                          LAMBDA p : Len(p) = 2 /\ Len(p[2]) > 0)
    IN  [ k \in 1..Len(kept) |-> << Unquote(kept[k][1]), Unquote(kept[k][2]) >> ]

\* urlparse.parse_qs(qs): each name with the list of its values
ParseQs(qs) ==
    LET r == ParseQsl(qs)
    IN  [ name \in { r[k][1] : k \in 1..Len(r) } |->
            LET mine == SelectSeq(r, LAMBDA p : p[1] = name)
            IN  [ k \in 1..Len(mine) |-> mine[k][2] ] ]

\* The entries of m after time and id: the label, the form key (by its position in
\* RequiredKeys) and the divisor
FormFields ==
    << [ label |-> "watts",        key |-> 2,  div |-> 10 ],
       [ label |-> "volts",        key |-> 3,  div |-> 10 ],
       [ label |-> "amps",         key |-> 4,  div |-> 10 ],
       [ label |-> "watt-hours",   key |-> 5,  div |-> 10 ],
       [ label |-> "max watts",    key |-> 6,  div |-> 10 ],
       [ label |-> "max volts",    key |-> 7,  div |-> 10 ],
       [ label |-> "max amps",     key |-> 8,  div |-> 10 ],
       [ label |-> "min watts",    key |-> 9,  div |-> 10 ],
       [ label |-> "min volts",    key |-> 10, div |-> 10 ],
       [ label |-> "min amps",     key |-> 11, div |-> 10 ],
       [ label |-> "power factor", key |-> 12, div |-> 1 ],
       [ label |-> "power cycle",  key |-> 13, div |-> 1 ],
       [ label |-> "frequency",    key |-> 14, div |-> 10 ],
       [ label |-> "volt-amps",    key |-> 15, div |-> 10 ] >>

\* What building m from data raises, or "": data['id'] first, then each entry's
\* lookup before its float()
FormError(data) ==
    FirstError(<< IF RequiredKeys[1] \in DOMAIN data THEN "" ELSE KeyError >>
               \o [ k \in 1..Len(FormFields) |->
                      IF RequiredKeys[FormFields[k].key] \notin DOMAIN data THEN KeyError
                      ELSE IF ~IsFloat(data[RequiredKeys[FormFields[k].key]][1]) THEN ValueError
                      ELSE "" ])

\* m, where building it succeeds
FormRecord(t, data) ==
    << << "time", t >>, << "id", data[RequiredKeys[1]][1] >> >>
    \o [ k \in 1..Len(FormFields) |->
           << FormFields[k].label,
              Div(ParseFloat(data[RequiredKeys[FormFields[k].key]][1]), FormFields[k].div) >> ]

\* handle: data = urlparse.parse_qs(poststr), m, and print(json.dumps(dict(m)))
ParseBody ==
    /\ hpc = "parse"
    /\ LET data == ParseQs(poststr)
       IN  IF FormError(data) # ""
           THEN HandlerRaises(FormError(data)) /\ UNCHANGED printed
           ELSE /\ printed' = Append(printed, Dict(FormRecord(now, data)))
                /\ hpc' = "respond"
                /\ UNCHANGED responses
    /\ UNCHANGED << srv, req, rfile, now, header_str, length, poststr >>
    /\ UNCHANGED meter_vars

\* handle: send_response(200), the Content-type header and the body "[0]"
SendResponse ==
    /\ hpc = "respond"
    /\ responses' = Append(responses,
           [ status |-> 200,
             content_type |-> << "t", "e", "x", "t", "/", "h", "t", "m", "l" >>,
             body |-> << "[", "0", "]" >>,
             raised |-> "", at |-> hpc ])
    /\ hpc' = "accept"
    /\ UNCHANGED << srv, req, rfile, now, header_str, length, poststr, printed >>
    /\ UNCHANGED meter_vars

\* An interrupt signal while serve_forever waits: server.socket.close()
ServerInterrupt ==
    /\ srv = "serving"
    /\ hpc = "accept"
    /\ srv' = "closed"
    /\ UNCHANGED << hpc, req, rfile, now, header_str, length, poststr, responses, printed >>
    /\ UNCHANGED meter_vars

(***************************************************************************)
(* The two programs                                                        *)
(***************************************************************************)

\* The receiver is not running
ServerStopped ==
    /\ srv = "closed"
    /\ hpc = "accept"
    /\ req = << >>
    /\ rfile = << >>
    /\ now = 0
    /\ header_str = << >>
    /\ length = << >>
    /\ poststr = << >>
    /\ responses = << >>
    /\ printed = << >>

\* wattsup.py is started with a command line of the model
Init == MeterInit /\ ServerStopped

Next ==
    \/ Connect
    \/ MainDispatch
    \/ GetHeaderWrite
    \/ GetHeaderRead
    \/ MainHeader
    \/ GetVersionWrite
    \/ GetVersionRead
    \/ GetVersionReturn
    \/ NetInfoWrite
    \/ NetInfoRead
    \/ NetInfoExtWrite
    \/ NetInfoExtRead
    \/ NetInfoReturn
    \/ Reset
    \/ LogOpen
    \/ LogHeaderRow
    \/ LogStart
    \/ LogReadLine
    \/ LogParse
    \/ LogRender
    \/ Interrupt
    \/ SetNetCheck
    \/ SetNetWrite
    \/ SetNetAck
    \/ SetNetCommit
    \/ SetNetCommitAck

Spec == Init /\ [][Next]_vars

\* server.py has created its HTTPServer; wattsup.py is not running
ServerInit ==
    /\ args = NoArgs
    /\ pc = "exited"
    /\ status = 0
    /\ exc = ""
    /\ s_open = FALSE
    /\ io = << >>
    /\ line = << >>
    /\ n1 = << >>
    /\ ret = << >>
    /\ m = << >>
    /\ fout = << >>
    /\ stdout = << >>
    /\ entered = { }
    /\ srv = "serving"
    /\ hpc = "accept"
    /\ req = << >>
    /\ rfile = << >>
    /\ now = 0
    /\ header_str = << >>
    /\ length = << >>
    /\ poststr = << >>
    /\ responses = << >>
    /\ printed = << >>

ServerNext ==
    \/ Accept
    \/ ReadHeaderByte
    \/ ScanHeaders
    \/ ReadBody
    \/ ParseBody
    \/ SendResponse
    \/ ServerInterrupt

ServerSpec == ServerInit /\ [][ServerNext]_vars

(***************************************************************************)
(* Claims about wattsup.py                                                 *)
(***************************************************************************)

\* The serial operations a function has made, in order
OpsBy(fn) == SelectSeq(io, LAMBDA e : e.by = fn)

\* The lines a function has read, in order
LinesReadBy(fn) ==
    LET reads == SelectSeq(io, LAMBDA e : e.by = fn /\ e.op = "readline")
    IN  [ k \in 1..Len(reads) |-> reads[k].data ]

OversizedNetworkArgs ==
    /\ args.network # << >>
    /\ Len(args.network[1].url) > 40 \/ Len(args.network[1].pfile) > 40

\* C1: when setNetworkExtended is called with a POST URL or a POST file of more
\* than 40 characters, it never writes to the serial device (neither the
\* set-network command nor the commit command), it never gets past its length
\* checks, and the process it ends has exit status 1.
C1_OversizedExitsUnsent ==
    ("setNetworkExtended" \in entered /\ OversizedNetworkArgs)
        => /\ OpsBy("setNetworkExtended") = << >>
           /\ pc \in { "setnet_check", "exited" }
           /\ (pc = "exited" /\ exc # "KeyboardInterrupt") => (status = 1 /\ exc = "SystemExit")

\* C1's case: a POST URL of 41 characters was refused and the process has exited
C1_Witness ==
    /\ "setNetworkExtended" \in entered
    /\ Len(args.network[1].url) = 41
    /\ Len(args.network[1].pfile) <= 40
    /\ pc = "exited"
    /\ status = 1
    /\ exc = "SystemExit"
    /\ io = << >>

\* C2 (as claimed): a #d line read by log's loop that is short or malformed does
\* not end the loop with an exception: the loop skips it and reads on.
C2_MalformedDataLineSkipped ==
    \A k \in 1..Len(LinesReadBy("log")) :
        LET l == LinesReadBy("log")[k]
        IN  (IsData(l) /\ RecordError(Fields(l)) # "")
                => ~(pc = "exited" /\ exc \in { IndexError, ValueError })

\* C5 (as claimed): whenever log() has ended, the serial connection has been closed.
C5_LogEndedSerialClosed ==
    ("log" \in entered /\ pc = "exited") => ~s_open

\* C6: when getHeader returns after reading the header line #h,x,y,col1,...,coln;
\* its result is exactly the sequence col1, ..., coln.
C6_HeaderColumns ==
    \A f \in HeaderForms :
        (pc \in { "main_header", "log_header" } /\ line = HeaderLine(f)) => ret = f.cols

\* C6's case: getHeader returned the two columns of a header it read after a
\* line it had rejected
C6_Witness ==
    /\ pc = "main_header"
    /\ Len(LinesReadBy("getHeader")) = 2
    /\ \E f \in HeaderForms : Len(f.cols) = 2 /\ line = HeaderLine(f) /\ ret = f.cols

\* C7 (as claimed): the k-th measurement field of the record is computed from the
\* k-th field after the first three, scaled by that field's factor.
C7_FieldFromOwnColumn ==
    pc = "log_render" =>
        \A k \in 1..Len(RecordFields) :
            k <= Len(Fields(line)) =>
                m[k + 1][2] = Div(Mul(ParseFloat(Fields(line)[k]), RecordFields[k].mul),
                                  RecordFields[k].div)

\* C8: the serial operations of setNetworkExtended are, in this order, the write
\* of the set-network-extended command, a readline, the write of the commit
\* command #I,W,0; and a readline; it has made all four when it returns.
C8_SetNetworkSequence ==
    LET ops == OpsBy("setNetworkExtended")
        kinds == << "write", "readline", "write", "readline" >>
    IN  /\ Len(ops) <= 4
        /\ \A k \in 1..Len(ops) : ops[k].op = kinds[k]
        /\ Len(ops) >= 1 =>
              /\ Upto(ops[1].data, 7) = << "#", "I", ",", "X", ",", "5", "," >>
              /\ Len(Split(ops[1].data, << "," >>)) = 8
              /\ ~OversizedNetworkArgs
        /\ Len(ops) >= 3 => ops[3].data = << "#", "I", ",", "W", ",", "0", ";" >>
        /\ ("setNetworkExtended" \in entered /\ pc = "exited" /\ exc = "") => Len(ops) = 4

\* C8's case: setNetworkExtended has returned after its four operations
C8_Witness ==
    /\ "setNetworkExtended" \in entered
    /\ pc = "exited"
    /\ exc = ""
    /\ Len(OpsBy("setNetworkExtended")) = 4
    /\ Len(args.network[1].url) = 40

Queries == { "getHeader", "getVersionInfo", "getNetworkInfo" }

HeaderQuery == << "#", "H", ",", "R", ",", "0", ";" >>
VersionQuery == << "#", "V", ",", "R", ",", "0", ";" >>
NetworkQuery == << "#", "I", ",", "Q", ",", "0", ";" >>
NetworkExtQuery == << "#", "I", ",", "E", ",", "0", ";" >>

\* The command a query function sends first
FirstQuery(fn) ==
    CASE fn = "getHeader" -> HeaderQuery
      [] fn = "getVersionInfo" -> VersionQuery
      [] fn = "getNetworkInfo" -> NetworkQuery

\* The lines a query accepts, as the specification states them
AcceptedFor(query, l) ==
    CASE query = HeaderQuery -> Upto(l, 2) = << "#", "h" >>
      [] query = VersionQuery -> Upto(l, 2) = << "#", "v" >> /\ Len(Fields(l)) = 8
      [] query = NetworkQuery -> Upto(l, 2) = << "#", "i" >> /\ Len(Fields(l)) = 7
      [] query = NetworkExtQuery -> Upto(l, 2) = << "#", "i" >> /\ Len(Fields(l)) = 5
      [] OTHER -> FALSE

\* The last line a function has read
LastLineReadBy(fn) == LinesReadBy(fn)[Len(LinesReadBy(fn))]

\* The line getNetworkInfo read just before it first wrote the extended query
BasicLineAccepted ==
    LET ops == OpsBy("getNetworkInfo")
        first == CHOOSE k \in 1..Len(ops) :
                    /\ ops[k].data = NetworkExtQuery
                    /\ \A j \in 1..(k - 1) : ops[j].data # NetworkExtQuery
    IN  ops[first - 1].data

\* C9: in getHeader, getVersionInfo and getNetworkInfo command writes and line
\* reads strictly alternate, starting with the query's command; after a rejected
\* line the same command is written again; the extended network query is written
\* only right after a basic response with tag #i and 7 fields was read; a query
\* leaves its loop only on a line it accepts (#h; #v with 8 fields; #i with 7,
\* then #i with 5 fields); and what is returned and printed comes from the
\* accepted lines.
C9_QueriesRetryUntilAccepted ==
    /\ \A fn \in Queries :
        LET ops == OpsBy(fn)
        IN  /\ \A k \in 1..Len(ops) : ops[k].op = IF k % 2 = 1 THEN "write" ELSE "readline"
            /\ Len(ops) >= 1 => ops[1].data = FirstQuery(fn)
            /\ \A k \in 3..Len(ops) :
                  k % 2 = 1 =>
                     IF AcceptedFor(ops[k - 2].data, ops[k - 1].data)
                     THEN /\ fn = "getNetworkInfo"
                          /\ ops[k - 2].data = NetworkQuery
                          /\ ops[k].data = NetworkExtQuery
                     ELSE ops[k].data = ops[k - 2].data
    /\ pc \in { "main_header", "log_header" } =>
          /\ AcceptedFor(HeaderQuery, LastLineReadBy("getHeader"))
          /\ ret = Fields(LastLineReadBy("getHeader"))
    /\ pc = "ver_return" => AcceptedFor(VersionQuery, LastLineReadBy("getVersionInfo"))
    /\ pc \in { "netext_write", "netext_read", "net_return" } =>
          IF \E k \in 1..Len(io) : io[k].data = NetworkExtQuery
          THEN /\ AcceptedFor(NetworkQuery, BasicLineAccepted)
               /\ n1 = Fields(BasicLineAccepted)
          ELSE /\ AcceptedFor(NetworkQuery, LastLineReadBy("getNetworkInfo"))
               /\ n1 = Fields(LastLineReadBy("getNetworkInfo"))
    /\ pc = "net_return" => AcceptedFor(NetworkExtQuery, LastLineReadBy("getNetworkInfo"))
    /\ \A k \in 1..Len(stdout) :
          /\ stdout[k].kind = "version" =>
                /\ AcceptedFor(VersionQuery, LastLineReadBy("getVersionInfo"))
                /\ stdout[k].text = VersionReport(Fields(LastLineReadBy("getVersionInfo")))
          /\ stdout[k].kind = "network" =>
                /\ AcceptedFor(NetworkExtQuery, LastLineReadBy("getNetworkInfo"))
                /\ stdout[k].text = NetworkReport(Fields(BasicLineAccepted),
                                                  Fields(LastLineReadBy("getNetworkInfo")))

\* C9's case: the network report was printed after getNetworkInfo had rejected a
\* line and read on
C9_Witness ==
    /\ pc = "exited"
    /\ \E k \in 1..Len(stdout) : stdout[k].kind = "network"
    /\ Len(LinesReadBy("getVersionInfo")) = 1
    /\ Len(LinesReadBy("getNetworkInfo")) = 3

\* What log has written: to the output file, or to standard output
Output == IF args.outfile \/ args.save THEN fout ELSE stdout

IsRecordLine(item) == item.kind \in { "raw", "pretty", "json" }

\* A line tagged #d from which the record can be built
WellFormedData(l) == Upto(l, 2) = << "#", "d" >> /\ RecordError(Fields(l)) = ""

\* C10: log writes the logging-start command exactly once, before any line it
\* reads; at every return to awaiting a device line the records written are, in
\* order, one record for each well-formed #d line read so far and nothing for any
\* other line; in between, only the record of the line being processed is missing.
C10_OneRecordPerDataLine ==
    LET ops == OpsBy("log")
        stream == LinesReadBy("log")
        wf == SelectSeq(stream, WellFormedData)
        recs == SelectSeq(Output, IsRecordLine)
    IN  /\ pc \in { "log_read", "log_parse", "log_render" } => ops # << >>
        /\ ops # << >> =>
              /\ ops[1].op = "write"
              /\ ops[1].data = << "#", "L", ",", "W", ",", "3", ",", "E", ",", "," >>
                               \o Str(args.interval) \o << ";" >>
              /\ \A k \in 2..Len(ops) : ops[k].op = "readline"
        /\ Len(recs) <= Len(wf)
        /\ Len(wf) <= Len(recs) + 1
        /\ Len(wf) > Len(recs) => WellFormedData(stream[Len(stream)])
        /\ pc = "log_read" => Len(recs) = Len(wf)
        /\ \A k \in 1..Len(recs) :
              \E t \in Clock : recs[k] = Render(args.format, Record(t, Fields(wf[k])))
        /\ \A j, k \in 1..Len(Output) : (j < k /\ IsRecordLine(Output[j])) => IsRecordLine(Output[k])

\* C10's case: two different well-formed #d lines with a line of another kind
\* between them gave two records, in the order of the lines
C10_Witness ==
    /\ pc = "log_read"
    /\ LinesReadBy("log") = << OtherDataLine, VersionLine, DataLine >>
    /\ Len(SelectSeq(Output, IsRecordLine)) = 2
    /\ SelectSeq(Output, IsRecordLine)[1] # SelectSeq(Output, IsRecordLine)[2]

(***************************************************************************)
(* Claims about server.py                                                  *)
(***************************************************************************)

\* C3 (as claimed): every connection whose header and body were read is answered
\* with status 200, content type text/html and the body [0], whatever the body holds.
C3_AlwaysAnswers200 ==
    \A k \in 1..Len(responses) :
        responses[k].at \in { "parse", "respond" } =>
            /\ responses[k].status = 200
            /\ responses[k].content_type = << "t", "e", "x", "t", "/", "h", "t", "m", "l" >>
            /\ responses[k].body = << "[", "0", "]" >>

\* C4 (as claimed): a connection whose body lacks a required key is answered with
\* a 4xx status, and no JSON record is printed for it.
C4_MissingKeyAnswered4xx ==
    (/\ hpc = "accept"
     /\ responses # << >>
     /\ responses[Len(responses)].at \in { "parse", "respond" }
     /\ \E j \in 1..Len(RequiredKeys) : RequiredKeys[j] \notin DOMAIN ParseQs(poststr))
        => /\ responses[Len(responses)].status \in 400..499
           /\ Len(printed) = Len(SelectSeq(responses, LAMBDA r : r.status = 200))

=============================================================================
